---- MODULE Spec2Model ----
(***************************************************************************)
(* Model of dv01_dbt_helper.py: the taxonomy resolver (DLCTaxonomyClient), *)
(* the config merger (DMSClient._deep_merge_with_priority) and the job     *)
(* resolver (DMSClient.fetch_model_and_pool_name).                         *)
(*                                                                         *)
(* Python objects live on a heap: heap[a] is the dict at address a, a      *)
(* function from its keys to cells.  A cell is [t, v]: t is the Python     *)
(* type of the value and v its payload (for "dict" the address of the      *)
(* dict, for "str" an index into StrTab, for "int" the number, for "list"  *)
(* the number of elements of an opaque list, for "none" 0).                *)
(***************************************************************************)
EXTENDS Integers, Sequences, FiniteSets, TLC

VARIABLES
    heap,            \* the dicts that exist, by address
    base,            \* merge harness: first argument of the merge (address)
    override,        \* merge harness: second argument of the merge (address)
    merged,          \* merge harness: the returned dict (address), 0 before the call
    taxonomy_cache,  \* one DLCTaxonomyClient: self._taxonomy_cache
    tax_calls,       \* that client: taxonomy-service requests it has issued
    lookups,         \* that client: calls of get_taxonomy_tag_id so far
    fetch_errors,    \* that client: lookups that ended in a non-success response
    tag_result,      \* that client: how the last lookup ended
    nres,            \* DMSClient: calls of fetch_model_and_pool_name so far
    log,             \* DMSClient: every remote call made, in order, with its answer
    job_id,          \* last resolution: its argument
    job_config,      \* last resolution: job_config (address), 0 when not fetched
    shared_config,   \* last resolution: shared_config (address), 0 when not fetched
    merged_config,   \* last resolution: merged_config (address), 0 when not reached
    dlc_cache,       \* last resolution: dlc_client._taxonomy_cache when it ended
    outcome,         \* last resolution: the error raised, or "ok" and the model
    command          \* last resolution: the string returned, <<>> when it raised

mergeVars == <<heap, base, override, merged>>
taxVars == <<taxonomy_cache, tax_calls, lookups, fetch_errors, tag_result>>
resVars == <<nres, log, job_id, job_config, shared_config, merged_config, dlc_cache,
             outcome, command>>
vars == <<heap, base, override, merged, taxonomy_cache, tax_calls, lookups, fetch_errors,
          tag_result, nres, log, job_id, job_config, shared_config, merged_config,
          dlc_cache, outcome, command>>

----
\* Cells and values

NoneCell == [t |-> "none", v |-> 0]
StrCell(i) == [t |-> "str", v |-> i]
IntCell(n) == [t |-> "int", v |-> n]
ListCell(n) == [t |-> "list", v |-> n]
DictCell(a) == [t |-> "dict", v |-> a]

\* The strings of the model, as sequences of characters; StrCell(i) is StrTab[i].
StrTab == << <<>>,
            <<"s", "p">>,
            <<"f", "l">>,
            <<"j", ".", "x">>,
            <<"s", ".", "d">> >>

EmptyStr == StrCell(1)
TagSp == StrCell(2)
TagFl == StrCell(3)
TableJ == StrCell(4)
TableS == StrCell(5)

\* bool(value)
Truthy(h, cell) ==
    CASE cell.t = "none" -> FALSE
      [] cell.t = "str" -> StrTab[cell.v] # <<>>
      [] cell.t = "int" -> cell.v # 0
      [] cell.t = "list" -> cell.v # 0
      [] cell.t = "dict" -> DOMAIN h[cell.v] # {}

\* dict.get(key): None when the key is absent
Get(h, a, key) == IF key \in DOMAIN h[a] THEN h[a][key] ELSE NoneCell

\* Every key the modelled documents use, in one fixed iteration order.
KeyOrder == <<"platformTag", "foundations-table-name", "retries", "a", "b">>

\* dict.items(): the keys of the dict at address o, as a sequence.
RECURSIVE ItemsFrom(_, _, _)
ItemsFrom(h, o, i) ==
    IF i > Len(KeyOrder) THEN <<>>
    ELSE IF KeyOrder[i] \in DOMAIN h[o]
         THEN <<KeyOrder[i]>> \o ItemsFrom(h, o, i + 1)
         ELSE ItemsFrom(h, o, i + 1)

Items(h, o) == ItemsFrom(h, o, 1)

\* Equality by value (Python ==) of the cell c1 in heap h1 and c2 in heap h2.
RECURSIVE ValEq(_, _, _, _)
ValEq(h1, c1, h2, c2) ==
    IF c1.t = "dict" /\ c2.t = "dict"
    THEN /\ DOMAIN h1[c1.v] = DOMAIN h2[c2.v]
         /\ \A k \in DOMAIN h1[c1.v] : ValEq(h1, h1[c1.v][k], h2, h2[c2.v][k])
    ELSE c1 = c2

----
\* DMSClient._deep_merge_with_priority

\* variant: merged = base, no copy
CopyDictAlias(h, b) == [h |-> h, a |-> b]

\* merged = base.copy(): a new dict with base's items (the values are shared).
CopyDict(h, b) == [h |-> Append(h, h[b]), a |-> Len(h) + 1]

\* variant: the merge never recurses
NeverBothDicts(h, m, key, ov) == FALSE

\* the condition of the if: key in merged, and both values are dicts
BothDicts(h, m, key, ov) ==
    /\ key \in DOMAIN h[m]
    /\ h[m][key].t = "dict"
    /\ ov.t = "dict"

\* merged[key] = value
SetItem(h, m, key, cell) == [h EXCEPT ![m] = (key :> cell) @@ @]

\* variant: a value of base is kept when override has the key too
StoreOverrideKeepBase(h, m, key, ov) ==
    IF key \in DOMAIN h[m] THEN h ELSE SetItem(h, m, key, ov)

\* the else branch: merged[key] = override_value
StoreOverride(h, m, key, ov) == SetItem(h, m, key, ov)

RECURSIVE DeepMerge(_, _, _)
RECURSIVE MergeLoop(_, _, _, _)

\* the for loop over override.items(), keys being the items still to visit
MergeLoop(h, m, o, keys) ==
    IF keys = <<>> THEN h
    ELSE LET key == Head(keys)
             ov == h[o][key]
             h1 == IF BothDicts(h, m, key, ov)
                   THEN LET r == DeepMerge(h, h[m][key].v, ov.v)
                        IN SetItem(r.h, m, key, DictCell(r.a))
                   ELSE StoreOverride(h, m, key, ov)
         IN MergeLoop(h1, m, o, Tail(keys))

\* the call: the heap after it and the address of the returned dict
DeepMerge(h, b, o) ==
    LET c == CopyDict(h, b)
    IN [h |-> MergeLoop(c.h, c.a, o, Items(c.h, o)), a |-> c.a]

----
\* DLCTaxonomyClient

NoCache == [pop |-> FALSE, map |-> [n \in {} |-> 0]]

Platform == "PIPELINE_PLATFORM"

\* The name -> id dict built from the tags of the response: a later tag of the
\* same name replaces an earlier one.
TagMap(tags) ==
    LET kept == {i \in 1..Len(tags) : tags[i].category = Platform}
        last(n) == CHOOSE i \in kept :
                       /\ tags[i].name = n
                       /\ \A j \in kept : tags[j].name = n => j <= i
    IN [n \in {tags[i].name : i \in kept} |-> tags[last(n)].id]

\* fetch_taxonomy_tags: one request; raise_for_status, then the filtered dict
fetch_taxonomy_tags(resp) ==
    IF ~resp.ok
    THEN [err |-> "UpstreamTaxonomy", map |-> NoCache.map]
    ELSE [err |-> "", map |-> TagMap(resp.tags)]

\* variant: every lookup fetches
AlwaysFetch(cache) == TRUE

\* whether the lookup consults the service: self._taxonomy_cache is None
NeedsFetch(cache) == ~cache.pop

\* get_taxonomy_tag_id: the cache after the call, whether a request was
\* issued, and the id returned or the error raised
get_taxonomy_tag_id(cache, platform_tag, resp) ==
    LET called == NeedsFetch(cache)
        f == fetch_taxonomy_tags(resp)
    IN IF called /\ f.err # ""
       THEN [cache |-> cache, called |-> TRUE, ok |-> resp.ok, err |-> f.err, id |-> 0]
       ELSE LET c == IF called THEN [pop |-> TRUE, map |-> f.map] ELSE cache
                found == platform_tag.t = "str" /\ platform_tag.v \in DOMAIN c.map
            IN [cache |-> c, called |-> called, ok |-> TRUE,
                err |-> IF found THEN "" ELSE "NoTaxonomyTag",
                id |-> IF found THEN c.map[platform_tag.v] ELSE 0]

Tag(n, i, c) == [name |-> n, id |-> i, category |-> c]

\* What the taxonomy service may answer.
TaxResponses ==
    {[ok |-> FALSE, tags |-> <<>>]} \cup
    {[ok |-> TRUE, tags |-> t] :
        t \in {<<>>,
               <<Tag(TagSp.v, 7, Platform)>>,
               <<Tag(TagSp.v, 9, "OTHER")>>,
               <<Tag(TagSp.v, 7, Platform), Tag(TagFl.v, 8, Platform)>>,
               <<Tag(TagSp.v, 7, Platform), Tag(TagSp.v, 6, Platform)>>,
               <<Tag(TagFl.v, 8, Platform), Tag(TagSp.v, 9, "OTHER")>>}}

MaxLookups == 4

InitTax ==
    /\ taxonomy_cache = NoCache
    /\ tax_calls = 0
    /\ lookups = 0
    /\ fetch_errors = 0
    /\ tag_result = [tag |-> NoneCell, err |-> "none", id |-> 0]

InitRes ==
    /\ nres = 0
    /\ log = <<>>
    /\ job_id = <<>>
    /\ job_config = 0
    /\ shared_config = 0
    /\ merged_config = 0
    /\ dlc_cache = NoCache
    /\ outcome = [kind |-> "none", model |-> NoneCell]
    /\ command = <<>>

\* one call of get_taxonomy_tag_id on the client
GetTaxonomyTagId ==
    /\ lookups < MaxLookups
    /\ \E tag \in {TagSp, TagFl, TableJ}, resp \in TaxResponses :
          LET r == get_taxonomy_tag_id(taxonomy_cache, tag, resp)
          IN /\ taxonomy_cache' = r.cache
             /\ tax_calls' = tax_calls + (IF r.called THEN 1 ELSE 0)
             /\ fetch_errors' = fetch_errors + (IF r.err = "UpstreamTaxonomy" THEN 1 ELSE 0)
             /\ tag_result' = [tag |-> tag, err |-> r.err, id |-> r.id]
    /\ lookups' = lookups + 1
    /\ UNCHANGED <<mergeVars, resVars>>

NextTax == GetTaxonomyTagId

----
\* SecretManagerClient and the construction of DLCTaxonomyClient

\* What the environment may hold when DLCTaxonomyClient() is constructed:
\* GCP_TARGET_PROJECT unset, no DLC_API_KEY secret, an empty one, or a key.
SecretEnvs == {"no_project", "missing", "empty", "ok"}

\* variant: the cache of the previous resolver is kept
CarriedCache == dlc_cache

\* self._taxonomy_cache = None
InitialCache == NoCache

\* DLCTaxonomyClient(): api_key is not supplied, so the key is read from the
\* secret manager; secret says whether that request was made and how it ended.
NewDLCTaxonomyClient(env) ==
    CASE env = "no_project" -> [err |-> "ConfigError", secret |-> "", cache |-> NoCache]
      [] env = "missing" -> [err |-> "SecretNotFound", secret |-> "missing", cache |-> NoCache]
      [] env = "empty" -> [err |-> "NoApiKey", secret |-> "empty", cache |-> NoCache]
      [] env = "ok" -> [err |-> "", secret |-> "ok", cache |-> InitialCache]

----
\* DMSClient

TableKey == "foundations-table-name"
TagKey == "platformTag"

\* The nested dicts a document may hold: {}, {"a": 1}, {"b": 2}.
SubHeap == << [k \in {} |-> NoneCell], ("a" :> IntCell(1)), ("b" :> IntCell(2)) >>

Absent == [t |-> "absent", v |-> 0]

\* The document with the given values, a key left out when its value is Absent.
DocOf(tag, table, retries) ==
    LET c == (TagKey :> tag) @@ (TableKey :> table) @@ ("retries" :> retries)
    IN [k \in {x \in DOMAIN c : c[x] # Absent} |-> c[k]]

JobDocs ==
    {DocOf(tag, table, Absent) :
        tag \in {Absent, NoneCell, EmptyStr, TagSp, TagFl},
        table \in {Absent, EmptyStr, TableJ, DictCell(1), DictCell(3)}}

SharedDocs ==
    {DocOf(Absent, table, retries) :
        table \in {Absent, NoneCell, TableS, DictCell(2)},
        retries \in {Absent, IntCell(3)}}

\* What the document store may answer to a search: a non-success status, no
\* record, or one record, with or without a json field.
DocResponses(docs) ==
    {[ok |-> FALSE, records |-> <<>>], [ok |-> TRUE, records |-> <<>>],
     [ok |-> TRUE, records |-> <<[hasJson |-> FALSE, json |-> SubHeap[1]]>>]} \cup
    {[ok |-> TRUE, records |-> <<[hasJson |-> TRUE, json |-> d]>>] : d \in docs}

\* how a search ended, as the log records it
SearchStatus(resp) ==
    IF ~resp.ok THEN "http_error" ELSE IF resp.records = <<>> THEN "empty" ELSE "ok"

\* records[0].get('json', {}), the document parsed into a new dict
FirstJson(h, resp) ==
    LET rec == resp.records[1]
    IN [err |-> "", h |-> Append(h, IF rec.hasJson THEN rec.json ELSE SubHeap[1]),
        a |-> Len(h) + 1]

\* variant: no record found is answered with an empty config
FetchJobConfigOrEmpty(h, resp) ==
    IF ~resp.ok THEN [err |-> "UpstreamJob", h |-> h, a |-> 0]
    ELSE IF resp.records = <<>> THEN [err |-> "", h |-> Append(h, SubHeap[1]), a |-> Len(h) + 1]
    ELSE FirstJson(h, resp)

\* _fetch_job_config: raise_for_status, then no records, then the first one
FetchJobConfig(h, resp) ==
    IF ~resp.ok THEN [err |-> "UpstreamJob", h |-> h, a |-> 0]
    ELSE IF resp.records = <<>> THEN [err |-> "NoJobConfig", h |-> h, a |-> 0]
    ELSE FirstJson(h, resp)

\* _fetch_shared_platform_config
FetchSharedPlatformConfig(h, resp) ==
    IF ~resp.ok THEN [err |-> "UpstreamShared", h |-> h, a |-> 0]
    ELSE IF resp.records = <<>> THEN [err |-> "NoSharedConfig", h |-> h, a |-> 0]
    ELSE FirstJson(h, resp)

\* variant: if platform_tag is None
TagKeyMissing(h, platform_tag) == platform_tag = NoneCell

\* if not platform_tag
NoPlatformTag(h, platform_tag) == ~Truthy(h, platform_tag)

\* variant: if model is None
ModelIsNone(h, model) == model = NoneCell

\* if not model
NoModel(h, model) == ~Truthy(h, model)

\* variant: the arguments of the merge swapped
MergeJobFirst(h, shared, job) == DeepMerge(h, job, shared)

\* merged_config = self._deep_merge_with_priority(shared_config, job_config)
MergeConfigs(h, shared, job) == DeepMerge(h, shared, job)

Call(svc, doc, status) == [svc |-> svc, doc |-> doc, status |-> status]

\* the end of _fetch_model_by_job_id: the table name of the config, or the error
ExtractModel(h, job, shared, mergedc, cache, calls) ==
    LET model == Get(h, mergedc, TableKey)
        missing == NoModel(h, model)
    IN [h |-> h, job |-> job, shared |-> shared, merged |-> mergedc, cache |-> cache,
        calls |-> calls,
        err |-> IF missing THEN "NoTableName" ELSE "",
        model |-> IF missing THEN NoneCell ELSE model]

\* an exception leaving _fetch_model_by_job_id
Raise(err, h, job, cache, calls) ==
    [h |-> h, job |-> job, shared |-> 0, merged |-> 0, cache |-> cache, calls |-> calls,
     err |-> err, model |-> NoneCell]

\* _fetch_model_by_job_id, given the answers of the remote services
FetchModelByJobId(h0, jresp, env, tresp, sresp) ==
    LET j == FetchJobConfig(h0, jresp)
        c1 == <<Call("dms", "PipelineJob", SearchStatus(jresp))>>
    IN IF j.err # "" THEN Raise(j.err, j.h, 0, NoCache, c1)
       ELSE LET platform_tag == Get(j.h, j.a, TagKey)
            IN IF NoPlatformTag(j.h, platform_tag)
               THEN ExtractModel(j.h, j.a, 0, j.a, NoCache, c1)
               ELSE
       LET d == NewDLCTaxonomyClient(env)
           c2 == IF d.secret = "" THEN c1 ELSE Append(c1, Call("secret", "", d.secret))
       IN IF d.err # "" THEN Raise(d.err, j.h, j.a, NoCache, c2)
          ELSE
       LET t == get_taxonomy_tag_id(d.cache, platform_tag, tresp)
           c3 == IF t.called
                 THEN Append(c2, Call("taxonomy", "", IF t.ok THEN "ok" ELSE "http_error"))
                 ELSE c2
       IN IF t.err # "" THEN Raise(t.err, j.h, j.a, t.cache, c3)
          ELSE
       LET sh == FetchSharedPlatformConfig(j.h, sresp)
           c4 == Append(c3, Call("dms", "SharedPipelineJob", SearchStatus(sresp)))
       IN IF sh.err # "" THEN Raise(sh.err, sh.h, j.a, t.cache, c4)
          ELSE LET m == MergeConfigs(sh.h, sh.a, j.a)
               IN ExtractModel(m.h, j.a, sh.a, m.a, t.cache, c4)

\* variant: only the first occurrence is replaced
RECURSIVE ReplaceFirst(_, _, _)
ReplaceFirst(str, old, new) ==
    IF str = <<>> THEN <<>>
    ELSE IF Head(str) = old THEN <<new>> \o Tail(str)
    ELSE <<Head(str)>> \o ReplaceFirst(Tail(str), old, new)

\* str.replace(old, new) for a one-character old
RECURSIVE Replace(_, _, _)
Replace(str, old, new) ==
    IF str = <<>> THEN <<>>
    ELSE <<IF Head(str) = old THEN new ELSE Head(str)>> \o Replace(Tail(str), old, new)

DigitChars == <<"0", "1", "2", "3", "4", "5", "6", "7", "8", "9">>

RECURSIVE Digits(_)
Digits(n) ==
    IF n < 10 THEN <<DigitChars[n + 1]>>
    ELSE Digits(n \div 10) \o <<DigitChars[(n % 10) + 1]>>

KeyChars(k) ==
    CASE k = "a" -> <<"a">>
      [] k = "b" -> <<"b">>
      [] k = "retries" -> <<"r", "e", "t", "r", "i", "e", "s">>
      [] k = "platformTag" -> <<"p", "l", "a", "t", "f", "o", "r", "m", "T", "a", "g">>
      [] k = "foundations-table-name" ->
           <<"f", "o", "u", "n", "d", "a", "t", "i", "o", "n", "s", "-",
             "t", "a", "b", "l", "e", "-", "n", "a", "m", "e">>

\* repr(value), for the values a document of the model holds
RECURSIVE Repr(_, _)
RECURSIVE ReprItems(_, _, _)
ReprItems(h, a, keys) ==
    IF keys = <<>> THEN <<>>
    ELSE <<"'">> \o KeyChars(Head(keys)) \o <<"'", ":", " ">> \o Repr(h, h[a][Head(keys)])
         \o (IF Tail(keys) = <<>> THEN <<>> ELSE <<",", " ">>)
         \o ReprItems(h, a, Tail(keys))

Repr(h, cell) ==
    CASE cell.t = "none" -> <<"N", "o", "n", "e">>
      [] cell.t = "int" -> Digits(cell.v)
      [] cell.t = "str" -> <<"'">> \o StrTab[cell.v] \o <<"'">>
      [] cell.t = "dict" -> <<"{">> \o ReprItems(h, cell.v, Items(h, cell.v)) \o <<"}">>

\* format(value, ''): a str as it is, anything else by its repr
Format(h, cell) == IF cell.t = "str" THEN StrTab[cell.v] ELSE Repr(h, cell)

\* the literal parts of the f-string
Lit1 == <<" ", "-", "-", "v", "a", "r", "s", " ", "'", "{", "\"",
          "p", "o", "o", "l", "_", "n", "a", "m", "e", "\"", ":", " ", "\"">>
Lit2 == <<"\"", ",", " ", "\"", "s", "c", "a", "l", "a", "_", "j", "o", "b", "_", "i", "d",
          "\"", ":", " ", "\"">>
Lit3 == <<"\"", "}", "'">>

\* pool_name = job_id.replace("/", "_")
PoolName(jid) == Replace(jid, "/", "_")

\* the f-string fetch_model_and_pool_name returns
CommandString(h, model, jid) ==
    <<"+">> \o Format(h, model) \o Lit1 \o PoolName(jid) \o Lit2 \o jid \o Lit3

MaxJobLen == 2
MaxResolutions == 3

JobIds == UNION {[1..n -> {"a", "/"}] : n \in 1..MaxJobLen}

Init ==
    /\ heap = SubHeap
    /\ base = 0
    /\ override = 0
    /\ merged = 0
    /\ InitTax
    /\ InitRes

\* An answer is drawn for a service only when the resolution consults it.
NotAsked == [ok |-> FALSE, records |-> <<>>]
NoTags == [ok |-> FALSE, tags |-> <<>>]

BuildsResolver(jresp) ==
    FetchModelByJobId(SubHeap, jresp, "no_project", NoTags, NotAsked).err = "ConfigError"

SearchesShared(jresp, env, tresp) ==
    FetchModelByJobId(SubHeap, jresp, env, tresp, NotAsked).err = "UpstreamShared"

\* one call of fetch_model_and_pool_name, its argument and the answers of the
\* services drawn from the given sets
Resolve(jids, jobDocs, envs, taxResps, sharedDocs) ==
    /\ \E jid \in jids, jresp \in DocResponses(jobDocs) :
       \E env \in IF BuildsResolver(jresp) THEN envs ELSE {"ok"} :
       \E tresp \in IF BuildsResolver(jresp) /\ env = "ok" THEN taxResps ELSE {NoTags} :
       \E sresp \in IF SearchesShared(jresp, env, tresp)
                    THEN DocResponses(sharedDocs) ELSE {NotAsked} :
          LET r == FetchModelByJobId(SubHeap, jresp, env, tresp, sresp)
          IN /\ heap' = r.h
             /\ job_id' = jid
             /\ job_config' = r.job
             /\ shared_config' = r.shared
             /\ merged_config' = r.merged
             /\ dlc_cache' = r.cache
             /\ log' = log \o [i \in 1..Len(r.calls) |->
                                  [res |-> nres + 1, svc |-> r.calls[i].svc,
                                   doc |-> r.calls[i].doc, status |-> r.calls[i].status]]
             /\ outcome' = [kind |-> IF r.err = "" THEN "ok" ELSE r.err, model |-> r.model]
             /\ command' = IF r.err = "" THEN CommandString(r.h, r.model, jid) ELSE <<>>
    /\ nres' = nres + 1
    /\ UNCHANGED <<base, override, merged, taxVars>>

\* Spec: the first call on a client, over every argument and answer.  A call
\* reads nothing an earlier call wrote, so a later call behaves as the first.
FetchModelAndPoolName ==
    /\ nres = 0
    /\ Resolve(JobIds, JobDocs, SecretEnvs, TaxResponses, SharedDocs)

Next == FetchModelAndPoolName

Spec == Init /\ [][Next]_vars

\* SpecCalls: several calls on one client, over fewer documents.
FewJobDocs == {DocOf(TagSp, TableJ, Absent), DocOf(Absent, TableJ, Absent)}
FewSharedDocs == {DocOf(Absent, TableS, IntCell(3))}
FewTaxResponses ==
    {r \in TaxResponses : ~r.ok \/ (Len(r.tags) = 1 /\ r.tags[1].category = Platform)}

FetchModelAndPoolNameAgain ==
    /\ nres < MaxResolutions
    /\ Resolve({<<"a", "/">>}, FewJobDocs, SecretEnvs, FewTaxResponses, FewSharedDocs)

NextCalls == FetchModelAndPoolNameAgain

SpecCalls == Init /\ [][NextCalls]_vars

----
\* The merge on its own: arguments drawn from bounded heaps

MaxObjs == 4

MKeys == {"a", "b"}

\* The non-dict value the dict at address i holds: an int in the dicts at odd
\* addresses and a list in those at even ones, different for every dict.
LeafOf(i) == IF i % 2 = 1 THEN IntCell(i) ELSE ListCell(i)

\* The dict at address i holds its leaf and the dicts built just before it.
Objs(i) ==
    UNION {[D -> {LeafOf(i)} \cup {DictCell(j) : j \in {i - 1, i - 2} \cap (1..i)}] :
              D \in SUBSET MKeys}

RECURSIVE HeapsOf(_)
HeapsOf(n) ==
    IF n = 0 THEN {<<>>}
    ELSE {Append(h, ob) : h \in HeapsOf(n - 1), ob \in Objs(n)}

\* The arguments are the two dicts built last, in either order, or the last
\* one twice.
InitMerge ==
    /\ heap \in HeapsOf(MaxObjs)
    /\ \E p \in {<<MaxObjs - 1, MaxObjs>>, <<MaxObjs, MaxObjs - 1>>, <<MaxObjs, MaxObjs>>} :
          /\ base = p[1]
          /\ override = p[2]
    /\ merged = 0
    /\ InitTax
    /\ InitRes

CallDeepMerge ==
    /\ merged = 0
    /\ LET r == DeepMerge(heap, base, override)
       IN /\ heap' = r.h
          /\ merged' = r.a
    /\ UNCHANGED <<base, override>>
    /\ UNCHANGED <<taxVars, resVars>>

NextMerge == CallDeepMerge


InitTaxOnly ==
    /\ heap = <<>>
    /\ base = 0
    /\ override = 0
    /\ merged = 0
    /\ InitTax
    /\ InitRes

SpecTax == InitTaxOnly /\ [][NextTax]_vars

SpecMerge == InitMerge /\ [][NextMerge]_vars

----
\* Claims about the taxonomy client (checked under SpecTax)

\* C1 as stated: N >= 1 lookups on one client issue exactly one
\* taxonomy-service call.
C1_ExactlyOneCall == lookups >= 1 => tax_calls = 1

\* C1 as amended: a lookup issues a taxonomy-service call exactly when the
\* cache is unset; a fetch that succeeds populates the cache and a fetch that
\* fails leaves it unset; a populated cache is never fetched again nor
\* changed, and the lookup answers from it.
C1_FetchUntilPopulated ==
    [][lookups' = lookups + 1 =>
          IF taxonomy_cache.pop
          THEN /\ tax_calls' = tax_calls
               /\ taxonomy_cache' = taxonomy_cache
               /\ tag_result'.err # "UpstreamTaxonomy"
               /\ tag_result'.err = "" =>
                      tag_result'.id = taxonomy_cache.map[tag_result'.tag.v]
          ELSE /\ tax_calls' = tax_calls + 1
               /\ taxonomy_cache'.pop <=> tag_result'.err # "UpstreamTaxonomy"]_vars

\* C1 witness: a fetch failed, a later one populated the cache, and lookups
\* of both tags were then answered without a further call.
C1_Witness ==
    /\ lookups = 4
    /\ fetch_errors = 1
    /\ tax_calls = 2
    /\ taxonomy_cache.pop
    /\ DOMAIN taxonomy_cache.map = {TagSp.v, TagFl.v}
    /\ tag_result.err = "" /\ tag_result.tag = TagFl

----
\* Claims about the merge (checked under SpecMerge)

\* k is a key of override that base also has, with a dict on both sides
Recurses(k) ==
    /\ k \in DOMAIN heap[override]
    /\ k \in DOMAIN heap[base]
    /\ heap[base][k].t = "dict"
    /\ heap[override][k].t = "dict"

\* C4: deep_merge(base, override) does not mutate its inputs: after the call
\* base and override have, by value and at every depth, the contents they had
\* before it.
C4_InputsNotMutated ==
    [][(merged = 0 /\ merged' # 0) =>
          /\ ValEq(heap, DictCell(base), heap', DictCell(base))
          /\ ValEq(heap, DictCell(override), heap', DictCell(override))
          /\ \A a \in 1..Len(heap) : heap'[a] = heap[a]]_vars

\* C4 witness: a merge has returned that recursed into a common dict and
\* replaced a non-dict value of base by a different value of override.
C4_Witness ==
    /\ merged # 0
    /\ base # override
    /\ \E k \in MKeys : Recurses(k) /\ heap[base][k].v # heap[override][k].v
    /\ \E k \in DOMAIN heap[base] \cap DOMAIN heap[override] :
          /\ heap[base][k].t # "dict"
          /\ heap[override][k] # heap[base][k]

\* C5: for every key k of override that base has too, with dicts on both
\* sides, deep_merge(base, override)[k] equals deep_merge(base[k], override[k]),
\* a dict over the keys of both.
C5_RecursesOnCommonDicts ==
    merged # 0 =>
        \A k \in DOMAIN heap[override] :
            Recurses(k) =>
                LET r == DeepMerge(heap, heap[base][k].v, heap[override][k].v)
                IN /\ k \in DOMAIN heap[merged]
                   /\ heap[merged][k].t = "dict"
                   /\ ValEq(heap, heap[merged][k], r.h, DictCell(r.a))
                   /\ DOMAIN heap[heap[merged][k].v] =
                        DOMAIN heap[heap[base][k].v] \cup DOMAIN heap[heap[override][k].v]

\* C5 witness: the merge recursed two levels deep, and at the first level the
\* base dict had a key the override dict lacks.
C5_Witness ==
    /\ merged # 0
    /\ \E k \in MKeys :
          /\ Recurses(k)
          /\ LET b1 == heap[base][k].v
                 o1 == heap[override][k].v
             IN \E k2 \in DOMAIN heap[b1] \cap DOMAIN heap[o1] :
                   /\ heap[b1][k2].t = "dict"
                   /\ heap[o1][k2].t = "dict"
    /\ \E k \in MKeys :
          /\ Recurses(k)
          /\ DOMAIN heap[heap[base][k].v] \ DOMAIN heap[heap[override][k].v] # {}

\* C6: for every key k of override where base[k] or override[k] is not a dict
\* (k absent from base included), the result holds override[k] itself; every
\* key of base that override lacks keeps its base value; the result has no
\* other keys.
C6_OverrideReplaces ==
    merged # 0 =>
        /\ \A k \in DOMAIN heap[override] :
              ~Recurses(k) =>
                  /\ k \in DOMAIN heap[merged]
                  /\ heap[merged][k] = heap[override][k]
        /\ \A k \in DOMAIN heap[base] \ DOMAIN heap[override] :
              /\ k \in DOMAIN heap[merged]
              /\ heap[merged][k] = heap[base][k]
        /\ DOMAIN heap[merged] = DOMAIN heap[base] \cup DOMAIN heap[override]

\* C6 witness: a merge has returned where a dict of base met a list of
\* override (a type mismatch) and base had a key of its own.
C6_Witness ==
    /\ merged # 0
    /\ \E k \in DOMAIN heap[base] \cap DOMAIN heap[override] :
          /\ heap[base][k].t = "dict"
          /\ heap[override][k].t = "list"
    /\ DOMAIN heap[base] \ DOMAIN heap[override] # {}

----
\* Claims about the job resolver (checked under Spec, C10 under SpecCalls)

\* the remote calls of resolution r, in order
CallsOf(r) == SelectSeq(log, LAMBDA e : e.res = r)
LastCalls == CallsOf(nres)

IsCall(e, svc, doc) == e.svc = svc /\ e.doc = doc

\* the job config was fetched and its platformTag is absent or falsy
JobHasNoTag ==
    /\ job_config # 0
    /\ \/ TagKey \notin DOMAIN heap[job_config]
       \/ heap[job_config][TagKey] \in {NoneCell, EmptyStr}

JobHasTag ==
    /\ job_config # 0
    /\ TagKey \in DOMAIN heap[job_config]
    /\ heap[job_config][TagKey] \in {TagSp, TagFl}

\* the cell is None, "" or {}
IsFalsy(c) ==
    \/ c \in {NoneCell, EmptyStr}
    \/ c.t = "dict" /\ DOMAIN heap[c.v] = {}

\* C2: when the fetched job config has no platformTag, or a falsy one, the
\* resolution makes the one job-config search and no other remote call, works on
\* the job config alone, and the model it returns is the job config's
\* foundations-table-name.
C2_NoTagUsesJobConfigOnly ==
    (nres >= 1 /\ JobHasNoTag) =>
        /\ Len(LastCalls) = 1
        /\ IsCall(LastCalls[1], "dms", "PipelineJob")
        /\ shared_config = 0
        /\ merged_config = job_config
        /\ ~dlc_cache.pop
        /\ outcome.kind \in {"ok", "NoTableName"}
        /\ outcome.kind = "ok" =>
              /\ TableKey \in DOMAIN heap[job_config]
              /\ outcome.model = heap[job_config][TableKey]

\* C2 witness: a job config with a falsy platformTag ("") and a table name
\* was resolved to that table name.
C2_Witness ==
    /\ nres >= 1 /\ JobHasNoTag
    /\ TagKey \in DOMAIN heap[job_config]
    /\ outcome = [kind |-> "ok", model |-> TableJ]

\* C3 as stated: with a shared config fetched, the resolved model is the job
\* config's foundations-table-name when the job config has that key, and the
\* shared config's otherwise.
C3_JobValueElseSharedValue ==
    (outcome.kind = "ok" /\ shared_config # 0) =>
        ValEq(heap, outcome.model, heap,
              IF TableKey \in DOMAIN heap[job_config]
              THEN heap[job_config][TableKey]
              ELSE heap[shared_config][TableKey])

\* C3 as amended: the resolved model is the foundations-table-name of
\* deep_merge(shared config, job config): the deep merge of the two values when
\* both configs hold a mapping under that key, otherwise the job config's value
\* when the job config has the key, and otherwise the shared config's value.
C3_ModelOfMergedConfig ==
    (outcome.kind = "ok" /\ shared_config # 0) =>
        LET jc == heap[job_config]
            sc == heap[shared_config]
        IN /\ TableKey \in DOMAIN heap[merged_config]
           /\ outcome.model = heap[merged_config][TableKey]
           /\ IF TableKey \in DOMAIN jc /\ TableKey \in DOMAIN sc
                 /\ jc[TableKey].t = "dict" /\ sc[TableKey].t = "dict"
              THEN /\ outcome.model.t = "dict"
                   /\ DOMAIN heap[outcome.model.v] =
                        DOMAIN heap[sc[TableKey].v] \cup DOMAIN heap[jc[TableKey].v]
                   /\ \A k \in DOMAIN heap[outcome.model.v] :
                         heap[outcome.model.v][k] =
                            IF k \in DOMAIN heap[jc[TableKey].v]
                            THEN heap[jc[TableKey].v][k]
                            ELSE heap[sc[TableKey].v][k]
              ELSE IF TableKey \in DOMAIN jc
              THEN outcome.model = jc[TableKey]
              ELSE TableKey \in DOMAIN sc /\ outcome.model = sc[TableKey]

\* C3 witness: the scenario of the spec: both configs name a table, the shared
\* config also holds retries, and the job config's table is the model.
C3_Witness ==
    /\ outcome = [kind |-> "ok", model |-> TableJ]
    /\ shared_config # 0
    /\ heap[shared_config] = DocOf(Absent, TableS, IntCell(3))
    /\ heap[job_config] = DocOf(TagSp, TableJ, Absent)
    /\ heap[merged_config] = DocOf(TagSp, TableJ, IntCell(3))

\* C7: a resolution that reaches the extraction raises the table-name error
\* when the resulting config lacks foundations-table-name or holds a falsy
\* value for it, and otherwise returns exactly that value; it returns a model
\* in no other case.
C7_TableNameRequired ==
    /\ merged_config # 0 =>
          LET m == heap[merged_config]
          IN IF TableKey \notin DOMAIN m \/ IsFalsy(m[TableKey])
             THEN outcome = [kind |-> "NoTableName", model |-> NoneCell] /\ command = <<>>
             ELSE outcome = [kind |-> "ok", model |-> m[TableKey]]
    /\ outcome.kind \in {"ok", "NoTableName"} => merged_config # 0

\* C7 witness: the job config's empty table name replaced the shared config's
\* table name in the merge, and the resolution raised.
C7_Witness ==
    /\ outcome.kind = "NoTableName"
    /\ shared_config # 0
    /\ Get(heap, shared_config, TableKey) = TableS
    /\ Get(heap, merged_config, TableKey) = EmptyStr

\* the error a remote call with that answer must raise
ErrorOf(e) ==
    CASE IsCall(e, "dms", "PipelineJob") /\ e.status = "http_error" -> "UpstreamJob"
      [] IsCall(e, "dms", "PipelineJob") /\ e.status = "empty" -> "NoJobConfig"
      [] e.svc = "secret" /\ e.status = "missing" -> "SecretNotFound"
      [] e.svc = "secret" /\ e.status = "empty" -> "NoApiKey"
      [] e.svc = "taxonomy" /\ e.status = "http_error" -> "UpstreamTaxonomy"
      [] IsCall(e, "dms", "SharedPipelineJob") /\ e.status = "http_error" -> "UpstreamShared"
      [] IsCall(e, "dms", "SharedPipelineJob") /\ e.status = "empty" -> "NoSharedConfig"
      [] OTHER -> "?"

\* C8: every error ends the resolution where it occurs: the failed remote call
\* is the last call of the resolution and its error is the one raised, a tag
\* the taxonomy lacks is raised before any shared-config search, no command
\* string is returned with an error, and a command string is returned only
\* after the untagged path or after all four calls succeeded.
C8_ErrorsRaisedAtOnce ==
    nres >= 1 =>
        LET c == LastCalls
            n == Len(c)
        IN /\ n >= 1
           /\ \A i \in 1..(n - 1) : c[i].status = "ok"
           /\ c[n].status # "ok" =>
                 /\ outcome.kind = ErrorOf(c[n])
                 /\ merged_config = 0
           /\ (JobHasTag /\ dlc_cache.pop
                 /\ heap[job_config][TagKey].v \notin DOMAIN dlc_cache.map) =>
                 /\ outcome.kind = "NoTaxonomyTag"
                 /\ c[n].svc = "taxonomy"
                 /\ shared_config = 0
           /\ outcome.kind # "ok" => command = <<>> /\ outcome.model = NoneCell
           /\ outcome.kind = "ok" =>
                 /\ command # <<>>
                 /\ c[n].status = "ok"
                 /\ \/ n = 1 /\ JobHasNoTag
                    \/ /\ n = 4 /\ JobHasTag /\ shared_config # 0
                       /\ c[2].svc = "secret" /\ c[3].svc = "taxonomy"
                       /\ IsCall(c[4], "dms", "SharedPipelineJob")

\* C8 witness: the shared-config search found no record after three good calls.
C8_Witness ==
    /\ nres >= 1
    /\ Len(LastCalls) = 4
    /\ LastCalls[4].status = "empty"
    /\ outcome.kind = "NoSharedConfig"

TaxCallsOf(r) == Len(SelectSeq(CallsOf(r), LAMBDA e : e.svc = "taxonomy"))

\* C10 as stated: every resolution whose job config has a truthy platformTag
\* issues exactly one taxonomy-service call.
C10_OneTaxonomyCallPerTaggedJob ==
    (nres >= 1 /\ JobHasTag) => TaxCallsOf(nres) = 1

\* C10 as amended: every resolution whose job config has a truthy platformTag
\* and whose taxonomy resolver is constructed (the DLC_API_KEY secret is read)
\* issues exactly one taxonomy-service call, after the job-config search and
\* before the shared-config search, which follows only when the tag is
\* resolved; a resolution that does not construct the resolver issues none;
\* so k resolutions that construct it issue k taxonomy-service calls.
C10_FreshResolverPerResolution ==
    /\ \A r \in 1..nres :
          LET c == CallsOf(r)
              built == \E i \in 1..Len(c) : c[i].svc = "secret" /\ c[i].status = "ok"
          IN /\ TaxCallsOf(r) = IF built THEN 1 ELSE 0
             /\ built =>
                   /\ Len(c) \in {3, 4}
                   /\ IsCall(c[1], "dms", "PipelineJob") /\ c[1].status = "ok"
                   /\ c[2].svc = "secret"
                   /\ c[3].svc = "taxonomy"
                   /\ Len(c) = 4 => IsCall(c[4], "dms", "SharedPipelineJob")
                   /\ Len(c) = 4 => c[3].status = "ok"
    /\ (nres >= 1 /\ JobHasTag) =>
          /\ TaxCallsOf(nres) =
                IF outcome.kind \in {"ConfigError", "SecretNotFound", "NoApiKey"} THEN 0 ELSE 1
          /\ dlc_cache.pop <=>
                (TaxCallsOf(nres) = 1 /\ outcome.kind # "UpstreamTaxonomy")
          /\ Len(LastCalls) = 4 <=>
                (dlc_cache.pop /\ heap[job_config][TagKey].v \in DOMAIN dlc_cache.map)
    /\ (nres >= 1 /\ ~JobHasTag) => TaxCallsOf(nres) = 0
    /\ Len(SelectSeq(log, LAMBDA e : e.svc = "taxonomy")) =
          Cardinality({r \in 1..nres :
                          \E i \in 1..Len(log) :
                              log[i].res = r /\ log[i].svc = "secret" /\ log[i].status = "ok"})

\* C10 witness: three resolutions of jobs with the same tag, each with its own
\* taxonomy-service call between its two document-store searches.
C10_Witness ==
    /\ nres = 3
    /\ \A r \in 1..3 : Len(CallsOf(r)) = 4 /\ TaxCallsOf(r) = 1
    /\ outcome.kind = "ok"
    /\ heap[job_config][TagKey] = TagSp

====
